---- MODULE Spec2Model ----
(***************************************************************************)
(* Model of the SKY130 technology plugin (hammer/technology/sky130).       *)
(*                                                                         *)
(* A text is a finite sequence of fragments; a fragment is a piece of a    *)
(* file (an identifier, a keyword, a blank, the newline "\n").  The texts  *)
(* the rewrites are run on are built from the fragments the rewrites look  *)
(* for, so that a search pattern is a sequence of fragments and Python's   *)
(* substring operations are sequence operations.                           *)
(***************************************************************************)
EXTENDS Integers, Sequences, FiniteSets, TLC

VARIABLES
    pc,                 \* position of the running operation
    lvs_tool,           \* setting vlsi.core.lvs_tool
    sf,                 \* text read from the source file
    df,                 \* text written to the destination file
    fs,                 \* vendor tree: path -> text, or Missing
    source_paths,       \* setting technology.sky130.lvs_deck_sources
    lvs_decks,          \* self.config.lvs_decks (destination of each deck)
    use_nda_files,      \* feature flag derived by post_install_script
    use_sram22,         \* feature flag derived by post_install_script
    written,            \* destination files written so far, in order
    logged,             \* logger.error records
    raised,             \* the exception that ended the operation, or NoError
    drc_blackbox_srams, \* setting technology.sky130.drc_blackbox_srams
    lvs_blackbox_srams, \* setting technology.sky130.lvs_blackbox_srams
    tool_name,          \* argument of the last hook lookup
    hooks,              \* value returned by the last hook lookup
    ht                  \* the tool a hook callback runs on

vars == <<pc, lvs_tool, sf, df, fs, source_paths, lvs_decks,
          use_nda_files, use_sram22, written, logged, raised,
          drc_blackbox_srams, lvs_blackbox_srams, tool_name, hooks, ht>>

rewrite_vars == <<lvs_tool, sf, df>>
install_vars == <<fs, source_paths, lvs_decks, use_nda_files, written, logged>>
hook_vars == <<drc_blackbox_srams, lvs_blackbox_srams, tool_name, hooks>>

\* ---------------------------------------------------------------- bounds
MaxLines == 3
MaxIoLines == 4
MaxDecks == 2
MaxCells == 2
MaxNames == 2

\* ------------------------------------------------- Python text primitives
NL == "\n"
NoError == [type |-> "none", path |-> ""]

BSeq(S, n) == UNION {[1..k -> S] : k \in 0..n}

RECURSIVE Flatten(_)
\* df.write / df.writelines of a sequence of pieces: their concatenation
Flatten(pieces) ==
    IF pieces = <<>> THEN <<>> ELSE Head(pieces) \o Flatten(Tail(pieces))

\* index of the first newline of a text, 0 when it has none
FirstNL(text) ==
    IF \E i \in 1..Len(text) : text[i] = NL
    THEN CHOOSE i \in 1..Len(text) :
            text[i] = NL /\ \A j \in 1..(i - 1) : text[j] # NL
    ELSE 0

RECURSIVE readlines(_)
\* iteration over a text file: lines, each keeping its trailing newline
readlines(text) ==
    IF text = <<>> THEN <<>>
    ELSE LET i == FirstNL(text)
         IN IF i = 0 THEN <<text>>
            ELSE <<SubSeq(text, 1, i)>> \o readlines(SubSeq(text, i + 1, Len(text)))

\* Python's (pat in line)
str_in(pat, line) ==
    \E i \in 1..(Len(line) - Len(pat) + 1) : SubSeq(line, i, i + Len(pat) - 1) = pat

RECURSIVE str_replace(_, _, _)
\* Python's line.replace(old, new): leftmost, non-overlapping occurrences
str_replace(line, old, new) ==
    IF line = <<>> THEN <<>>
    ELSE IF Len(old) <= Len(line) /\ SubSeq(line, 1, Len(old)) = old
         THEN new \o str_replace(SubSeq(line, Len(old) + 1, Len(line)), old, new)
         ELSE <<Head(line)>> \o str_replace(Tail(line), old, new)

Whitespace == {" ", NL}

RECURSIVE lstrip(_)
lstrip(line) ==
    IF line # <<>> /\ Head(line) \in Whitespace THEN lstrip(Tail(line)) ELSE line

RECURSIVE rstrip(_)
rstrip(line) ==
    IF line # <<>> /\ line[Len(line)] \in Whitespace
    THEN rstrip(SubSeq(line, 1, Len(line) - 1)) ELSE line

\* Python's line.strip()
strip(line) == rstrip(lstrip(line))

RECURSIVE JoinLines(_)
\* lines (without their newline) joined, each followed by a newline
JoinLines(ls) ==
    IF ls = <<>> THEN <<>> ELSE Head(ls) \o <<NL>> \o JoinLines(Tail(ls))

\* a file of the given lines; the last line ends in a newline iff final_nl
MkText(ls, final_nl) ==
    LET t == JoinLines(ls)
    IN IF final_nl \/ t = <<>> THEN t ELSE SubSeq(t, 1, Len(t) - 1)

Texts(CandLines) ==
    {MkText(ls, nl) : ls \in BSeq(CandLines, MaxLines), nl \in BOOLEAN}

\* ------------------------------------------------------- idle sub-states
RewriteIdle ==
    /\ lvs_tool = "" /\ sf = <<>> /\ df = <<>>

InstallIdle ==
    /\ fs = <<>> /\ source_paths = <<>> /\ lvs_decks = <<>>
    /\ use_nda_files = FALSE /\ written = <<>> /\ logged = <<>>

HookIdle ==
    /\ drc_blackbox_srams = FALSE /\ lvs_blackbox_srams = FALSE
    /\ tool_name = "" /\ hooks = <<>>

HtIdle == ht = [is_par |-> TRUE, is_tcl |-> TRUE, endcap_cells |-> <<>>, output |-> <<>>]

\* ------------------------------------------------------------ setup_cdl
LvsTools == {"hammer.lvs.calibre", "hammer.lvs.netgen", "hammer.lvs.magic"}

pmos(tool) ==
    IF tool = "hammer.lvs.calibre" THEN <<"phighvt">>
    ELSE <<"sky130_fd_pr__", "pfet_01v8_hvt">>

nmos(tool) ==
    IF tool = "hammer.lvs.calibre" THEN <<"nshort">>
    ELSE <<"sky130_fd_pr__", "nfet_01v8">>

cdl_line(line, tool) ==
    str_replace(str_replace(line, <<"pfet_01v8_hvt">>, pmos(tool)),
                <<"nfet_01v8">>, nmos(tool))

\* the text setup_cdl leaves in the destination
cdl_text(text, tool) ==
    IF tool \in {"hammer.lvs.calibre", "hammer.lvs.netgen"}
    THEN Flatten([i \in 1..Len(readlines(text)) |-> cdl_line(readlines(text)[i], tool)])
    ELSE text

CdlLines ==
    { <<"M1", " ", "pfet_01v8_hvt">>,
      <<"M2", " ", "nfet_01v8">>,
      <<"M3", " ", "nfet_01v8", "_lvt">>,
      <<"M4", " ", "sky130_fd_pr__", "pfet_01v8_hvt">>,
      <<"M5", " ", "pfet_01v8_hvt", " ", "nfet_01v8">>,
      <<".ENDS">> }

\* the state a rewrite leaves alone
NoInstall == InstallIdle /\ HookIdle /\ HtIdle /\ use_sram22 = FALSE /\ raised = NoError
other_vars == <<install_vars, hook_vars, ht, use_sram22, raised>>

InitCdl ==
    /\ pc = "start"
    /\ lvs_tool \in LvsTools
    /\ sf \in Texts(CdlLines)
    /\ df = <<>>
    /\ NoInstall

\* lines 63-70 (or the copy of line 60) on a source that exists
rewrite_cdl ==
    /\ pc = "start"
    /\ df' = cdl_text(sf, lvs_tool)
    /\ pc' = "done"
    /\ UNCHANGED <<lvs_tool, sf, other_vars>>

SpecCdl == InitCdl /\ [][rewrite_cdl]_vars

\* fragment i of a text is a whole token: blanks or the text's ends around it
WholeToken(text, i) ==
    /\ i = 1 \/ text[i - 1] \in Whitespace
    /\ i = Len(text) \/ text[i + 1] \in Whitespace

\* the netlist with the two identifiers replaced where they are whole tokens
TokenReplaced(text, tool) ==
    Flatten([i \in 1..Len(text) |->
        IF WholeToken(text, i) /\ text[i] = "pfet_01v8_hvt" THEN pmos(tool)
        ELSE IF WholeToken(text, i) /\ text[i] = "nfet_01v8" THEN nmos(tool)
        ELSE <<text[i]>>])

\* C3: for a supported verification tool the netlist rewrite replaces the two
\* device-model identifiers where they occur as whole tokens and leaves every
\* other line byte-identical; for an unsupported tool the output is the input.
C3_WholeTokenRewrite ==
    pc = "done" =>
        df = IF lvs_tool \in {"hammer.lvs.calibre", "hammer.lvs.netgen"}
             THEN TokenReplaced(sf, lvs_tool) ELSE sf

\* -------------------------------------------------- setup_verilog, <lib>.v
\* In the fragments, "^" stands for the grave accent that opens a Verilog
\* compiler directive (a TLA+ string cannot hold one).
BLEEDER == "SKY130_FD_SC_HD__LPFLOW_BLEEDER_FUNCTIONAL_V"

verilog_line_loose(line) ==
    str_replace(str_replace(line, <<"wire 1">>, <<"// ", "wire 1">>),
                <<"^endif ">>, <<"^endif ", "// ">>)

verilog_line(line) ==
    str_replace(str_replace(line, <<"wire 1">>, <<"// ", "wire 1">>),
                <<"^endif ", BLEEDER>>, <<"^endif ", "// ", BLEEDER>>)

\* the text setup_verilog leaves in <library_name>.v
verilog_text(text) ==
    Flatten([i \in 1..Len(readlines(text)) |-> verilog_line(readlines(text)[i])])

VerilogLines ==
    { <<"  ", "wire 1", ";">>,
      <<"  ", "// ", "wire 1", ";">>,
      <<"^endif ", BLEEDER>>,
      <<"^endif ", "// ", BLEEDER>>,
      <<"^endif ">>,
      <<"endmodule">> }

InitVerilog ==
    /\ pc = "start"
    /\ lvs_tool = ""
    /\ sf \in Texts(VerilogLines)
    /\ df = <<>>
    /\ NoInstall

\* lines 89-96 on a source that exists
rewrite_verilog ==
    /\ pc = "start"
    /\ df' = verilog_text(sf)
    /\ pc' = "done"
    /\ UNCHANGED <<lvs_tool, sf, other_vars>>

\* lines 89-96 again, reading the file the first run wrote
rewrite_verilog_again ==
    /\ pc = "done"
    /\ sf' = df
    /\ df' = verilog_text(df)
    /\ pc' = "again"
    /\ UNCHANGED <<lvs_tool, other_vars>>

SpecVerilog == InitVerilog /\ [][rewrite_verilog \/ rewrite_verilog_again]_vars

\* C4 as stated: the primary behavioral-model rewrite is idempotent: run on
\* its own output (sf of the second run) it writes that output unchanged.
C4_Idempotent == pc = "again" => df = sf

\* the text with one more comment marker in front of every 'wire 1'
MarkedAgain(text) ==
    Flatten([i \in 1..Len(text) |->
        IF text[i] = "wire 1" THEN <<"// ", "wire 1">> ELSE <<text[i]>>])

\* C4 as amended: run on its own output the rewrite leaves the corrected
\* endif line and every other line as they are, except that each 'wire 1'
\* gets one more comment marker in front of it; it writes its own output
\* back unchanged exactly when that output holds no 'wire 1'.
C4_IdempotentButWire ==
    pc = "again" =>
        /\ df = MarkedAgain(sf)
        /\ df = sf <=> ~str_in(<<"wire 1">>, sf)

C4_Witness ==
    /\ pc = "again"
    /\ str_in(<<"wire 1">>, sf)
    /\ str_in(<<"^endif ", "// ", BLEEDER>>, sf)
    /\ df # sf

\* --------------------------------------------- setup_verilog, primitives.v
primitives_line_loose(line) == str_replace(line, <<"none">>, <<"wire">>)

primitives_line(line) ==
    str_replace(line, <<"^default_nettype ", "none">>, <<"^default_nettype ", "wire">>)

\* the text setup_verilog leaves in primitives.v
primitives_text(text) ==
    Flatten([i \in 1..Len(readlines(text)) |-> primitives_line(readlines(text)[i])])

PrimitivesLines ==
    { <<"^default_nettype ", "none">>,
      <<"^default_nettype ", "wire">>,
      <<"^default_nettype ", "none", " ", "^default_nettype ", "none">>,
      <<"// ", "none">>,
      <<"primitive">> }

InitPrimitives ==
    /\ pc = "start"
    /\ lvs_tool = ""
    /\ sf \in Texts(PrimitivesLines)
    /\ df = <<>>
    /\ NoInstall

\* lines 107-113 on a source that exists
rewrite_primitives ==
    /\ pc = "start"
    /\ df' = primitives_text(sf)
    /\ pc' = "done"
    /\ UNCHANGED <<lvs_tool, sf, other_vars>>

SpecPrimitives == InitPrimitives /\ [][rewrite_primitives]_vars

\* fragment i of a text is the "none" of a default_nettype none directive
DirectiveNone(text, i) ==
    i > 1 /\ text[i] = "none" /\ text[i - 1] = "^default_nettype "

\* the lines that differ between two texts of the same line count
ChangedLines(a, b) ==
    {i \in 1..Len(readlines(a)) : readlines(a)[i] # readlines(b)[i]}

\* C9 as stated: a text holding the directive has exactly one line changed,
\* and the line count is unchanged.
C9_ExactlyOneLine ==
    pc = "done" =>
        /\ Len(readlines(df)) = Len(readlines(sf))
        /\ str_in(<<"^default_nettype ", "none">>, sf) =>
               Cardinality(ChangedLines(sf, df)) = 1

\* C9 as amended: the shared-primitives rewrite turns every default_nettype
\* none directive (none, one or several of them) into default_nettype wire,
\* and leaves the line count and all other content unchanged.
C9_OnlyDirectives ==
    pc = "done" =>
        /\ Len(readlines(df)) = Len(readlines(sf))
        /\ Len(df) = Len(sf)
        /\ \A i \in 1..Len(sf) :
               df[i] = IF DirectiveNone(sf, i) THEN "wire" ELSE sf[i]

C9_Witness ==
    /\ pc = "done"
    /\ Cardinality(ChangedLines(sf, df)) = 2
    /\ \E i \in 1..Len(sf) : sf[i] = "none" /\ df[i] = "none"

\* ---------------------------------------------------------- setup_techlef
the_tlef_edit ==
    <<NL, "LAYER", " ", "licon", NL, " ", " ", "TYPE CUT ;", NL, "END", " ", "licon", NL>>

END_pwell == <<"END", " ", "pwell">>

techlef_text_exact(text) ==
    Flatten([i \in 1..Len(readlines(text)) |->
        IF readlines(text)[i] = END_pwell \o <<NL>>
        THEN readlines(text)[i] \o the_tlef_edit
        ELSE readlines(text)[i]])

\* the text setup_techlef leaves in the destination
techlef_text(text) ==
    Flatten([i \in 1..Len(readlines(text)) |->
        IF strip(readlines(text)[i]) = END_pwell
        THEN readlines(text)[i] \o the_tlef_edit
        ELSE readlines(text)[i]])

TechlefLines ==
    { END_pwell,
      <<" ", " ">> \o END_pwell,
      END_pwell \o <<" ">>,
      END_pwell \o <<" ", ";">>,
      <<"END", " ", "nwell">>,
      <<"LAYER", " ", "pwell">> }

InitTechlef ==
    /\ pc = "start"
    /\ lvs_tool = ""
    /\ sf \in Texts(TechlefLines)
    /\ df = <<>>
    /\ NoInstall

\* lines 127-134 on a source that exists
rewrite_techlef ==
    /\ pc = "start"
    /\ df' = techlef_text(sf)
    /\ pc' = "done"
    /\ UNCHANGED <<lvs_tool, sf, other_vars>>

SpecTechlef == InitTechlef /\ [][rewrite_techlef]_vars

\* the lines of a text that are the marker: exactly, or up to surrounding blanks
ExactMarkerLines(text) ==
    {i \in 1..Len(readlines(text)) :
        readlines(text)[i] \in {END_pwell, END_pwell \o <<NL>>}}

StrippedMarkerLines(text) ==
    {i \in 1..Len(readlines(text)) : strip(readlines(text)[i]) = END_pwell}

\* the text with the licon block put right after line i, and nowhere else
BlockAfterLine(text, i) ==
    Flatten(SubSeq(readlines(text), 1, i)) \o the_tlef_edit
        \o Flatten(SubSeq(readlines(text), i + 1, Len(readlines(text))))

LVS_DECK_SCRUB_LINES ==
    { "VIRTUAL CONNECT REPORT", "SOURCE PRIMARY", "SOURCE SYSTEM SPICE",
      "SOURCE PATH", "ERC", "LVS REPORT" }

LVS_DECK_INSERT_LINES ==
    <<NL, "LVS FILTER D  OPEN  SOURCE", NL, "LVS FILTER D  OPEN  LAYOUT", NL>>

\* a line is one match of '.*(A|B|...).*\n': it holds one of the patterns and
\* ends in a newline ('.' matches no newline, so a match is one whole line)
matcher(line) ==
    /\ line # <<>> /\ line[Len(line)] = NL
    /\ \E pat \in LVS_DECK_SCRUB_LINES : str_in(<<pat>>, line)

\* matcher.sub("", sf.read()) followed by the inserted lines
lvs_deck_text(text) ==
    Flatten([i \in 1..Len(readlines(text)) |->
        IF matcher(readlines(text)[i]) THEN <<>> ELSE readlines(text)[i]])
    \o LVS_DECK_INSERT_LINES

LvsDeckLines ==
    { <<"ERC">>,
      <<"erc">>,
      <<"LVS REPORT", " ", "lvs.rep">>,
      <<"SOURCE PATH">>,
      <<"LAYOUT PATH", " ", "top.gds">>,
      <<"LVS FILTER D  OPEN  SOURCE">>,
      <<"LVS FILTER D  OPEN  LAYOUT">> }

InitLvsDeck ==
    /\ pc = "start"
    /\ lvs_tool = ""
    /\ sf \in Texts(LvsDeckLines)
    /\ df = <<>>
    /\ NoInstall

\* lines 157-162 on a source that exists
rewrite_lvs_deck ==
    /\ pc = "start"
    /\ df' = lvs_deck_text(sf)
    /\ pc' = "done"
    /\ UNCHANGED <<lvs_tool, sf, other_vars>>

SpecLvsDeck == InitLvsDeck /\ [][rewrite_lvs_deck]_vars

\* a fragment in upper case
Upper(f) == IF f = "erc" THEN "ERC" ELSE f

\* the line, without its newline, is one of the scrub patterns in some case
ScrubLine(line) ==
    LET body == IF line # <<>> /\ line[Len(line)] = NL
                THEN SubSeq(line, 1, Len(line) - 1) ELSE line
    IN Len(body) = 1 /\ Upper(body[1]) \in LVS_DECK_SCRUB_LINES

\* the two-line boundary-filter block
FilterBlock == Tail(LVS_DECK_INSERT_LINES)

Occurrences(pat, text) ==
    {i \in 1..(Len(text) - Len(pat) + 1) : SubSeq(text, i, i + Len(pat) - 1) = pat}

\* C5: the rewritten deck holds no line that is a scrub pattern (any case,
\* whole line, the last line without a newline included), and the two-line
\* boundary-filter block occurs exactly once, at the end of the output.
C5_Scrubbed ==
    pc = "done" =>
        /\ \A i \in 1..Len(readlines(df)) : ~ScrubLine(readlines(df)[i])
        /\ Occurrences(FilterBlock, df) = {Len(df) - Len(FilterBlock) + 1}

\* ---------------------------------------------------------- setup_io_lefs
IoNets == <<"VCCD1", "VSSD1">>

RECURSIVE LinesWith(_, _, _)
\* [idx for idx,line in enumerate(sl) if pat in line], from index k on
LinesWith(sl, pat, k) ==
    IF k > Len(sl) THEN <<>>
    ELSE (IF str_in(pat, sl[k]) THEN <<k>> ELSE <<>>) \o LinesWith(sl, pat, k + 1)

\* lines 185-187 for one interval: the PORT lines of sl[a:b] get CLASS CORE
PatchInterval(sl, a, b) ==
    [i \in 1..Len(sl) |->
        IF a <= i /\ i < b /\ str_in(<<"PORT">>, sl[i])
        THEN str_replace(sl[i], <<"PORT">>, <<"PORT", NL, "      CLASS CORE ;">>)
        ELSE sl[i]]

RECURSIVE PatchIntervals(_, _, _)
\* for intv in zip(start, end)
PatchIntervals(sl, start, end) ==
    IF start = <<>> \/ end = <<>> THEN sl
    ELSE PatchIntervals(PatchInterval(sl, Head(start), Head(end)), Tail(start), Tail(end))

PatchNet(sl, net) ==
    PatchIntervals(sl, LinesWith(sl, <<"PIN ", net>>, 1), LinesWith(sl, <<"END ", net>>, 1))

\* the text setup_io_lefs leaves in the destination
io_lefs_text(text) ==
    Flatten(PatchNet(PatchNet(readlines(text), IoNets[1]), IoNets[2]))

IoLefLines ==
    { <<"PIN ", "VCCD1">>, <<"END ", "VCCD1">>,
      <<"PIN ", "VSSD1">>, <<"END ", "VSSD1">>,
      <<"PIN ", "VCCD1", "_PAD">>, <<"END ", "VCCD1", "_PAD">>,
      <<"PORT">>, <<"LAYER met3 ;">> }

InitIoLefs ==
    /\ pc = "start"
    /\ lvs_tool = ""
    /\ sf \in {MkText(ls, TRUE) : ls \in BSeq(IoLefLines, MaxIoLines)}
    /\ df = <<>>
    /\ NoInstall

\* lines 175-188 on a source that exists
rewrite_io_lefs ==
    /\ pc = "start"
    /\ df' = io_lefs_text(sf)
    /\ pc' = "done"
    /\ UNCHANGED <<lvs_tool, sf, other_vars>>

SpecIoLefs == InitIoLefs /\ [][rewrite_io_lefs]_vars

\* line i lies strictly between a PIN line of exactly this net and the first
\* END line of exactly this net after it
InBlock(sl, i, net) ==
    \E a \in 1..(i - 1) :
        /\ strip(sl[a]) = <<"PIN ", net>>
        /\ \A k \in (a + 1)..i : strip(sl[k]) # <<"END ", net>>
        /\ \E b \in (i + 1)..Len(sl) : strip(sl[b]) = <<"END ", net>>

\* what C7 says the output is: CLASS CORE right after each PORT line inside
\* a block of one of the two nets, every other line as it was
ClaimedIoLefs(text) ==
    Flatten([i \in 1..Len(readlines(text)) |->
        IF /\ str_in(<<"PORT">>, readlines(text)[i])
           /\ \E n \in 1..Len(IoNets) : InBlock(readlines(text), i, IoNets[n])
        THEN str_replace(readlines(text)[i], <<"PORT">>,
                         <<"PORT", NL, "      CLASS CORE ;">>)
        ELSE readlines(text)[i]])

\* the PIN and END lines of the text pair up into blocks: each PIN line is
\* closed by an END line of the same name before the next PIN line
WellFormedLef(text) ==
    LET sl == readlines(text)
        pins == LinesWith(sl, <<"PIN ">>, 1)
        ends == LinesWith(sl, <<"END ">>, 1)
    IN /\ Len(pins) = Len(ends)
       /\ \A k \in 1..Len(pins) :
              /\ pins[k] < ends[k]
              /\ Tail(sl[pins[k]]) = Tail(sl[ends[k]])
              /\ k < Len(pins) => ends[k] < pins[k + 1]

\* C7: for each of VCCD1 and VSSD1 one CLASS CORE line is inserted right
\* after each PORT line strictly between the net's PIN and END lines, and
\* every other line (blocks of nets whose names only start with VCCD1 or
\* VSSD1 included) is unmodified.  Stated for the files whose PIN and END
\* lines pair up into blocks.
C7_OnlyNamedNets ==
    (pc = "done" /\ WellFormedLef(sf)) => df = ClaimedIoLefs(sf)

\* ---------------------------------------------------- post_install_script
CDL_SRC == "sky130A/libs.ref/sky130_fd_sc_hd/cdl/sky130_fd_sc_hd.cdl"
VERILOG_SRC == "sky130A/libs.ref/sky130_fd_sc_hd/verilog/sky130_fd_sc_hd.v"
PRIMITIVES_SRC == "sky130A/libs.ref/sky130_fd_sc_hd/verilog/primitives.v"
TECHLEF_SRC == "sky130A/libs.ref/sky130_fd_sc_hd/techlef/sky130_fd_sc_hd__nom.tlef"
IO_LEF_SRC == "sky130A/libs.ref/sky130_fd_io/lef/sky130_ef_io.lef"
SKY130_NDA == "sky130_nda"
SRAM22_MACROS == "sram22_sky130_macros"

CDL_DEST == "cache/sky130_fd_sc_hd.cdl"
VERILOG_DEST == "cache/sky130_fd_sc_hd.v"
PRIMITIVES_DEST == "cache/primitives.v"
TECHLEF_DEST == "cache/sky130_fd_sc_hd__nom.tlef"
IO_LEF_DEST == "cache/sky130_ef_io.lef"

\* the i-th configured deck source and the i-th deck's destination
DeckSource(i) == "sky130_nda/lvs_deck_" \o ToString(i)
DeckDest(i) == "cache/lvs_deck_" \o ToString(i)

Unbound == "<unbound local>"

VendorPaths ==
    {CDL_SRC, VERILOG_SRC, PRIMITIVES_SRC, TECHLEF_SRC, IO_LEF_SRC, SKY130_NDA, SRAM22_MACROS}
        \cup {DeckSource(i) : i \in 1..MaxDecks}

\* what each vendor file holds when it is there
VendorText(p) ==
    IF p = CDL_SRC THEN <<"M1", " ", "pfet_01v8_hvt", NL, "M2", " ", "nfet_01v8", NL>>
    ELSE IF p = VERILOG_SRC THEN <<"  ", "wire 1", ";", NL, "^endif ", BLEEDER, NL>>
    ELSE IF p = PRIMITIVES_SRC THEN <<"^default_nettype ", "none", NL, "primitive", NL>>
    ELSE IF p = TECHLEF_SRC THEN <<"LAYER", " ", "pwell", NL, "END", " ", "pwell", NL>>
    ELSE IF p = IO_LEF_SRC THEN <<"PIN ", "VCCD1", NL, "PORT", NL, "END ", "VCCD1", NL>>
    ELSE IF p \in {SKY130_NDA, SRAM22_MACROS} THEN <<>>
    ELSE <<"LAYOUT PATH", " ", p, NL, "ERC", NL>>

Write(dest, src, text) == [dest |-> dest, src |-> src, text |-> text]
FileNotFoundError(p) == [type |-> "FileNotFoundError", path |-> p]

InitInstall ==
    /\ pc = "start"
    /\ lvs_tool \in LvsTools
    /\ sf = <<>> /\ df = <<>>
    /\ \E present \in SUBSET VendorPaths : fs = [p \in present |-> VendorText(p)]
    /\ \E n \in 0..MaxDecks : source_paths = [i \in 1..n |-> DeckSource(i)]
    /\ \E n \in 0..MaxDecks : lvs_decks = [i \in 1..n |-> DeckDest(i)]
    /\ use_nda_files = FALSE /\ use_sram22 = FALSE
    /\ written = <<>> /\ logged = <<>> /\ raised = NoError
    /\ HookIdle /\ HtIdle

install_frame == <<lvs_tool, sf, df, fs, source_paths, lvs_decks, hook_vars, ht>>

\* lines 26-29: the feature flags
post_install_script ==
    /\ pc = "start"
    /\ use_nda_files' = (SKY130_NDA \in DOMAIN fs)
    /\ use_sram22' = (SRAM22_MACROS \in DOMAIN fs)
    /\ pc' = "setup_cdl"
    /\ UNCHANGED <<install_frame, written, logged, raised>>

setup_cdl ==
    /\ pc = "setup_cdl"
    /\ IF CDL_SRC \notin DOMAIN fs
       THEN /\ raised' = FileNotFoundError(CDL_SRC)
            /\ pc' = "raised"
            /\ written' = written
       ELSE /\ written' = Append(written, Write(CDL_DEST, CDL_SRC, cdl_text(fs[CDL_SRC], lvs_tool)))
            /\ pc' = "setup_verilog"
            /\ raised' = raised
    /\ UNCHANGED <<install_frame, use_nda_files, use_sram22, logged>>

setup_verilog_skip ==
    /\ pc = "setup_verilog"
    /\ IF VERILOG_SRC \notin DOMAIN fs
       THEN /\ raised' = FileNotFoundError(VERILOG_SRC)
            /\ pc' = "raised"
            /\ written' = written
       ELSE IF PRIMITIVES_SRC \notin DOMAIN fs
       THEN /\ written' = Append(written, Write(VERILOG_DEST, VERILOG_SRC, verilog_text(fs[VERILOG_SRC])))
            /\ pc' = "setup_techlef"
            /\ raised' = raised
       ELSE /\ written' = written \o
                <<Write(VERILOG_DEST, VERILOG_SRC, verilog_text(fs[VERILOG_SRC])),
                  Write(PRIMITIVES_DEST, PRIMITIVES_SRC, primitives_text(fs[PRIMITIVES_SRC]))>>
            /\ pc' = "setup_techlef"
            /\ raised' = raised
    /\ UNCHANGED <<install_frame, use_nda_files, use_sram22, logged>>

setup_verilog ==
    /\ pc = "setup_verilog"
    /\ IF VERILOG_SRC \notin DOMAIN fs
       THEN /\ raised' = FileNotFoundError(VERILOG_SRC)
            /\ pc' = "raised"
            /\ written' = written
       ELSE IF PRIMITIVES_SRC \notin DOMAIN fs
       THEN /\ written' = Append(written, Write(VERILOG_DEST, VERILOG_SRC, verilog_text(fs[VERILOG_SRC])))
            /\ raised' = FileNotFoundError(PRIMITIVES_SRC)
            /\ pc' = "raised"
       ELSE /\ written' = written \o
                <<Write(VERILOG_DEST, VERILOG_SRC, verilog_text(fs[VERILOG_SRC])),
                  Write(PRIMITIVES_DEST, PRIMITIVES_SRC, primitives_text(fs[PRIMITIVES_SRC]))>>
            /\ pc' = "setup_techlef"
            /\ raised' = raised
    /\ UNCHANGED <<install_frame, use_nda_files, use_sram22, logged>>

setup_techlef ==
    /\ pc = "setup_techlef"
    /\ IF TECHLEF_SRC \notin DOMAIN fs
       THEN /\ raised' = FileNotFoundError(TECHLEF_SRC)
            /\ pc' = "raised"
            /\ written' = written
       ELSE /\ written' = Append(written, Write(TECHLEF_DEST, TECHLEF_SRC, techlef_text(fs[TECHLEF_SRC])))
            /\ pc' = "setup_lvs_deck"
            /\ raised' = raised
    /\ UNCHANGED <<install_frame, use_nda_files, use_sram22, logged>>

RECURSIVE lvs_deck_loop(_, _, _)
\* lines 146-162 from deck i on; source_path is the local variable as the
\* previous iteration left it, st the files written, the errors logged and
\* the exception raised so far
lvs_deck_loop(i, source_path, st) ==
    IF i > Len(lvs_decks) THEN st
    ELSE LET found == i <= Len(source_paths)
             path == IF found THEN source_paths[i] ELSE source_path
             log == IF found THEN st.logged
                    ELSE Append(st.logged, "No corresponding source for LVS deck " \o lvs_decks[i])
         IN IF path = Unbound
            THEN [st EXCEPT !.logged = log,
                            !.raised = [type |-> "UnboundLocalError", path |-> "source_path"]]
            ELSE IF path \notin DOMAIN fs
            THEN [st EXCEPT !.logged = log, !.raised = FileNotFoundError(path)]
            ELSE lvs_deck_loop(i + 1, path,
                    [st EXCEPT !.logged = log,
                               !.written = Append(st.written,
                                   Write(lvs_decks[i], path, lvs_deck_text(fs[path])))])

setup_lvs_deck ==
    /\ pc = "setup_lvs_deck"
    /\ LET st == IF ~use_nda_files \/ lvs_decks = <<>>
                 THEN [written |-> written, logged |-> logged, raised |-> raised]
                 ELSE lvs_deck_loop(1, Unbound,
                        [written |-> written, logged |-> logged, raised |-> raised])
       IN /\ written' = st.written
          /\ logged' = st.logged
          /\ raised' = st.raised
          /\ pc' = IF st.raised = NoError THEN "setup_io_lefs" ELSE "raised"
    /\ UNCHANGED <<install_frame, use_nda_files, use_sram22>>

setup_io_lefs ==
    /\ pc = "setup_io_lefs"
    /\ IF IO_LEF_SRC \notin DOMAIN fs
       THEN /\ raised' = FileNotFoundError(IO_LEF_SRC)
            /\ pc' = "raised"
            /\ written' = written
       ELSE /\ written' = Append(written, Write(IO_LEF_DEST, IO_LEF_SRC, io_lefs_text(fs[IO_LEF_SRC])))
            /\ pc' = "loaded"
            /\ raised' = raised
    /\ UNCHANGED <<install_frame, use_nda_files, use_sram22, logged>>

NextInstall ==
    \/ post_install_script
    \/ setup_cdl
    \/ setup_verilog
    \/ setup_techlef
    \/ setup_lvs_deck
    \/ setup_io_lefs

SpecInstall == InitInstall /\ [][NextInstall]_vars

\* the verification-deck step has run to its end
LvsDeckStepOver == pc \in {"setup_io_lefs", "loaded"} \/ (pc = "raised" /\ raised.path = IO_LEF_SRC)

\* C1: with fewer source paths than decks, a deck with no source path at its
\* index is logged and skipped: nothing is written to its destination, the
\* rewrite does not raise because of it, and every deck that has a source
\* path at its index is rewritten from exactly that source.
C1_MissingSourceSkipped ==
    /\ raised.type # "UnboundLocalError"
    /\ \A k \in 1..Len(written) : \A i \in 1..Len(lvs_decks) :
           written[k].dest = lvs_decks[i] =>
               /\ i <= Len(source_paths)
               /\ written[k].src = source_paths[i]
               /\ written[k].text = lvs_deck_text(fs[source_paths[i]])
    /\ (LvsDeckStepOver /\ use_nda_files) =>
           \A i \in 1..Len(lvs_decks) :
               i <= Len(source_paths) =>
                   \E k \in 1..Len(written) :
                       written[k].dest = lvs_decks[i] /\ written[k].src = source_paths[i]

\* the five fixed vendor artifacts, in the order they are rewritten
FixedSources == <<CDL_SRC, VERILOG_SRC, PRIMITIVES_SRC, TECHLEF_SRC, IO_LEF_SRC>>
FixedDests == <<CDL_DEST, VERILOG_DEST, PRIMITIVES_DEST, TECHLEF_DEST, IO_LEF_DEST>>

\* position of a destination in the fixed order of the transformations
Rank(dest) ==
    IF dest = CDL_DEST THEN 1
    ELSE IF dest = VERILOG_DEST THEN 2
    ELSE IF dest = PRIMITIVES_DEST THEN 3
    ELSE IF dest = TECHLEF_DEST THEN 4
    ELSE IF dest = IO_LEF_DEST THEN 6
    ELSE 5

\* the number of fixed artifacts whose transformation has returned
FixedDone ==
    IF pc \in {"start", "setup_cdl"} THEN 0
    ELSE IF pc = "setup_verilog" THEN 1
    ELSE IF pc = "setup_techlef" THEN 3
    ELSE IF pc \in {"setup_lvs_deck", "setup_io_lefs"} THEN 4
    ELSE IF pc = "loaded" THEN 5
    ELSE 0

\* C2: the transformations run in the fixed order; a fixed vendor artifact
\* whose source is absent makes its transformation raise a not-found error
\* naming the path before its destination is opened; the error ends the
\* setup, so no destination of that or a later step is written.
C2_FailFastInOrder ==
    /\ \A j, k \in 1..Len(written) :
           j < k => /\ Rank(written[j].dest) <= Rank(written[k].dest)
                    /\ written[j].dest # written[k].dest
    /\ \A n \in 1..FixedDone :
           /\ FixedSources[n] \in DOMAIN fs
           /\ \E k \in 1..Len(written) :
                  written[k].dest = FixedDests[n] /\ written[k].src = FixedSources[n]
    /\ \A n \in 1..Len(FixedSources) :
           raised = FileNotFoundError(FixedSources[n]) =>
               /\ pc = "raised"
               /\ FixedSources[n] \notin DOMAIN fs
               /\ \A m \in 1..(n - 1) : FixedSources[m] \in DOMAIN fs
               /\ \A k \in 1..Len(written) : Rank(written[k].dest) < Rank(FixedDests[n])
    /\ pc = "raised" <=> raised # NoError
    /\ \A n \in 1..Len(FixedSources) :
           (FixedSources[n] \notin DOMAIN fs) => pc # "loaded"

C2_Witness ==
    /\ pc = "raised"
    /\ raised = FileNotFoundError(PRIMITIVES_SRC)
    /\ Len(written) = 2
    /\ written[2].dest = VERILOG_DEST
    /\ IO_LEF_SRC \in DOMAIN fs

\* ------------------------------------------------------------ hook lookups
make_post_insertion_hook(step, callback) ==
    [step |-> step, mode |-> "post_insertion", callback |-> callback]

make_pre_insertion_hook(step, callback) ==
    [step |-> step, mode |-> "pre_insertion", callback |-> callback]

\* hooks.get(tool_name, []) of a dictionary with the one key
hooks_get(key, value, name) == IF name = key THEN value ELSE <<>>

get_tech_par_hooks(name) ==
    hooks_get("innovus",
        << make_post_insertion_hook("init_design", "sky130_innovus_settings"),
           make_pre_insertion_hook("place_tap_cells", "sky130_add_endcaps"),
           make_pre_insertion_hook("power_straps", "sky130_connect_nets"),
           make_pre_insertion_hook("write_design", "sky130_connect_nets2") >>,
        name)

get_tech_drc_hooks(name) ==
    hooks_get("calibre",
        IF drc_blackbox_srams
        THEN <<make_post_insertion_hook("generate_drc_run_file", "drc_blackbox_srams")>>
        ELSE <<>>,
        name)

get_tech_lvs_hooks_swapped(name) ==
    hooks_get("calibre",
        (IF lvs_blackbox_srams
         THEN <<make_post_insertion_hook("generate_lvs_run_file", "lvs_blackbox_srams")>>
         ELSE <<>>)
        \o (IF use_sram22
            THEN <<make_post_insertion_hook("generate_lvs_run_file",
                                            "sram22_lvs_recognize_gates_all")>>
            ELSE <<>>),
        name)

get_tech_lvs_hooks(name) ==
    hooks_get("calibre",
        (IF use_sram22
         THEN <<make_post_insertion_hook("generate_lvs_run_file",
                                         "sram22_lvs_recognize_gates_all")>>
         ELSE <<>>)
        \o (IF lvs_blackbox_srams
            THEN <<make_post_insertion_hook("generate_lvs_run_file", "lvs_blackbox_srams")>>
            ELSE <<>>),
        name)

ToolNames == {"innovus", "calibre", "openroad", "magic", "netgen", "Calibre"}

\* the state once post_install_script has derived use_sram22
InitHooks ==
    /\ pc = "start"
    /\ use_sram22 \in BOOLEAN
    /\ drc_blackbox_srams \in BOOLEAN
    /\ lvs_blackbox_srams \in BOOLEAN
    /\ tool_name = "" /\ hooks = <<>>
    /\ RewriteIdle /\ InstallIdle /\ HtIdle /\ raised = NoError

hook_frame == <<rewrite_vars, install_vars, ht, raised,
                use_sram22, drc_blackbox_srams, lvs_blackbox_srams>>

lookup_par(name) ==
    /\ tool_name' = name
    /\ hooks' = get_tech_par_hooks(name)
    /\ pc' = "par"
    /\ UNCHANGED hook_frame

lookup_drc(name) ==
    /\ tool_name' = name
    /\ hooks' = get_tech_drc_hooks(name)
    /\ pc' = "drc"
    /\ UNCHANGED hook_frame

lookup_lvs(name) ==
    /\ tool_name' = name
    /\ hooks' = get_tech_lvs_hooks(name)
    /\ pc' = "lvs"
    /\ UNCHANGED hook_frame

NextHooks ==
    \/ \E name \in ToolNames : lookup_par(name)
    \/ \E name \in ToolNames : lookup_drc(name)
    \/ \E name \in ToolNames : lookup_lvs(name)

SpecHooks == InitHooks /\ [][NextHooks]_vars

Callbacks(hs) == [i \in 1..Len(hs) |-> hs[i].callback]
Steps(hs) == [i \in 1..Len(hs) |-> hs[i].step]
Has(hs, callback) == \E i \in 1..Len(hs) : hs[i].callback = callback

\* the tool name each lookup registers
Registered(kind) == IF kind = "par" THEN "innovus" ELSE "calibre"

\* C8: a lookup of an unregistered tool name returns the empty list whatever
\* the flags are; a registered name returns the bindings in the declared
\* order; each optional binding is there exactly when its own flag is set,
\* and the flags change neither the presence nor the order of the others.
C8_HookLookups ==
    pc \in {"par", "drc", "lvs"} =>
        /\ raised = NoError
        /\ tool_name # Registered(pc) => hooks = <<>>
        /\ (pc = "par" /\ tool_name = "innovus") =>
               Steps(hooks) = <<"init_design", "place_tap_cells", "power_straps", "write_design">>
        /\ (pc = "drc" /\ tool_name = "calibre") =>
               /\ Has(hooks, "drc_blackbox_srams") <=> drc_blackbox_srams
               /\ Len(hooks) = IF drc_blackbox_srams THEN 1 ELSE 0
        /\ (pc = "lvs" /\ tool_name = "calibre") =>
               /\ Has(hooks, "sram22_lvs_recognize_gates_all") <=> use_sram22
               /\ Has(hooks, "lvs_blackbox_srams") <=> lvs_blackbox_srams
               /\ Len(hooks) = (IF use_sram22 THEN 1 ELSE 0)
                                + (IF lvs_blackbox_srams THEN 1 ELSE 0)
               /\ (use_sram22 /\ lvs_blackbox_srams) =>
                      Callbacks(hooks) =
                          <<"sram22_lvs_recognize_gates_all", "lvs_blackbox_srams">>

C8_Witness ==
    /\ pc = "lvs" /\ tool_name = "calibre"
    /\ use_sram22 /\ lvs_blackbox_srams /\ ~drc_blackbox_srams
    /\ Len(hooks) = 2

\* ------------------------------------------------------ sky130_add_endcaps
EndcapNames == {"sky130_fd_sc_hd__decap_3", "sky130_fd_sc_hd__tapvpwrvgnd_1"}

\* a SpecialCell of type endcap: the list of its cell names
EndcapCells == [name : BSeq(EndcapNames, MaxNames)]

add_endcaps_text(left, right) ==
    << "set_db add_endcaps_boundary_tap     true",
       "set_db add_endcaps_left_edge        " \o left,
       "set_db add_endcaps_right_edge       " \o right,
       "add_endcaps" >>

InitEndcaps ==
    /\ pc = "start"
    /\ \E par, tcl \in BOOLEAN : \E cells \in BSeq(EndcapCells, MaxCells) :
           ht = [is_par |-> par, is_tcl |-> tcl, endcap_cells |-> cells, output |-> <<>>]
    /\ RewriteIdle /\ InstallIdle /\ HookIdle
    /\ use_sram22 = FALSE /\ raised = NoError

endcaps_frame == <<rewrite_vars, install_vars, hook_vars, use_sram22>>

Raise(type) ==
    /\ raised' = [type |-> type, path |-> ""]
    /\ pc' = "raised"
    /\ ht' = ht

sky130_add_endcaps_last ==
    /\ pc = "start"
    /\ IF ~ht.is_par \/ ~ht.is_tcl THEN Raise("AssertionError")
       ELSE IF ht.endcap_cells = <<>> THEN Raise("IndexError")
       ELSE IF ht.endcap_cells[Len(ht.endcap_cells)].name = <<>> THEN Raise("IndexError")
       ELSE LET endcap_cell == ht.endcap_cells[Len(ht.endcap_cells)].name[1]
            IN /\ ht' = [ht EXCEPT !.output =
                            Append(@, add_endcaps_text(endcap_cell, endcap_cell))]
               /\ pc' = "done"
               /\ raised' = raised
    /\ UNCHANGED endcaps_frame

sky130_add_endcaps ==
    /\ pc = "start"
    /\ IF ~ht.is_par \/ ~ht.is_tcl THEN Raise("AssertionError")
       ELSE IF ht.endcap_cells = <<>> THEN Raise("IndexError")
       ELSE IF ht.endcap_cells[1].name = <<>> THEN Raise("IndexError")
       ELSE LET endcap_cell == ht.endcap_cells[1].name[1]
            IN /\ ht' = [ht EXCEPT !.output =
                            Append(@, add_endcaps_text(endcap_cell, endcap_cell))]
               /\ pc' = "done"
               /\ raised' = raised
    /\ UNCHANGED endcaps_frame

SpecEndcaps == InitEndcaps /\ [][sky130_add_endcaps]_vars

\* the hook has run on a place-and-route tool that takes TCL
RanOnParTool == pc # "start" /\ ht.is_par /\ ht.is_tcl

====
